---- MODULE Spec2Model ----
(***************************************************************************)
(* A model of the three screens of src/components/Staff/StaffLeaveManager  *)
(* .tsx: StaffLeaveManager (leave requests), AddMenuItemForm (menu item    *)
(* with image upload) and Staff (roster CRUD), together with the backend   *)
(* tables they read and write.  The screens share no client state; each    *)
(* behaviour follows one scenario: one client using every control of       *)
(* StaffLeaveManager, several clients reviewing leaves concurrently, one   *)
(* client on AddMenuItemForm, or one client on Staff.                      *)
(*                                                                         *)
(* JavaScript values: "" is the empty string, Undefined stands for         *)
(* undefined/null, a URL is a sequence (<<>> is the empty string), a list  *)
(* returned by a query is a function from row id to row (<<>> is []).      *)
(***************************************************************************)
EXTENDS Integers, Sequences, FiniteSets, TLC

\* ------------------------------------------------------------------ bounds
\* clients that review leaves concurrently
NumClients == 2
\* rows the staff_leaves table can hold (two exist initially)
MaxLeaves == 3
\* mutation calls (insert/update) one client has awaiting at one time
MaxCalls == 1
\* uploadImage calls and onSubmit calls made on one AddMenuItemForm
MaxUploads == 2
MaxSubmits == 2
\* identities the staff table can give out (two are taken initially)
MaxStaff == 3

Clients == 1..NumClients
Scenarios == {"request", "review", "menu", "staff"}
Undefined == "undefined"
Tenants == {"r1", "r2"}
Dates == {"2024-01-01"}
Reasons == {"sick"}

VARIABLES
  mounted,        \* the scenario this behaviour follows
  session,        \* per client: the authenticated user and its profiles row
  staffTable,     \* backend table staff: id -> row
  leavesTable,    \* backend table staff_leaves: id -> row
  ridQ,           \* StaffLeaveManager: the restaurant-id query
  staffQ,         \* StaffLeaveManager: the staff query
  leavesQ,        \* StaffLeaveManager: the staff-leaves query
  isAddLeaveOpen, selectedStaffId, startDate, endDate, reason,
  insertCalls,    \* handleAddLeave calls awaiting the insert
  updateCalls,    \* updateLeaveStatus calls awaiting the update
  profileQ,       \* AddMenuItemForm: the userProfile query
  menuFormOpen,   \* AddMenuItemForm is shown (until the parent's onClose)
  selectedFile, isUploading, uploadedImageUrl, uploadProgress, isSubmitting,
  formImageUrl,   \* the form's image_url field
  uploads,        \* uploadImage calls: attempt -> its position and outcome
  submits,        \* onSubmit calls: submission -> its position and outcome
  menuTable,      \* backend table menu_items: id -> row
  toast,          \* title of the last notification (AddMenuItemForm, handleAddLeave)
  rosterQ,        \* Staff: the staff query
  isAddDialogOpen, editingStaff,
  rosterCalls,    \* Staff: handleSubmit and handleDelete calls in progress
  staffSeq        \* backend: the identities given to staff rows so far

leaveVars == <<ridQ, staffQ, leavesQ, isAddLeaveOpen, selectedStaffId, startDate,
               endDate, reason, insertCalls, updateCalls>>
menuVars == <<profileQ, menuFormOpen, selectedFile, isUploading, uploadedImageUrl,
              uploadProgress, isSubmitting, formImageUrl, uploads, submits,
              menuTable, toast>>
rosterVars == <<rosterQ, isAddDialogOpen, editingStaff, rosterCalls, staffSeq>>
\* AddMenuItemForm's state without the notification
menuForm == <<profileQ, menuFormOpen, selectedFile, isUploading, uploadedImageUrl,
              uploadProgress, isSubmitting, formImageUrl, uploads, submits, menuTable>>
vars == <<mounted, session, staffTable, leavesTable, leaveVars, menuVars, rosterVars>>

\* ------------------------------------------------------- JavaScript values
\* !v for the strings this code tests: "" and undefined/null are falsy
Falsy(v) == v \in {"", Undefined}

\* ---------------------------------------------------------- the scenarios
\* client c has StaffLeaveManager mounted
OnLeave(c) == (mounted = "request" /\ c = 1) \/ mounted = "review"
\* client c uses the "Request Leave" dialog
UsesDialog(c) == mounted = "request" /\ c = 1
\* client 1 has AddMenuItemForm mounted
OnMenu == mounted = "menu"
\* client 1 has Staff mounted
OnStaff == mounted = "staff"

\* ------------------------------------------------------------ the backend
\* supabase.auth.getUser(): the session's user, Undefined without a session
GetUser(c) == session[c].user
\* profiles.select("restaurant_id").eq("id", user.id).single(), then
\* userProfile?.restaurant_id: Undefined when the row or the column is missing
ProfileRestaurantId(c) == session[c].restaurant_id

\* .from("staff").select(...).eq("restaurant_id", rid)
SelectStaff(table, rid) ==
  [i \in {j \in DOMAIN table : table[j].restaurant_id = rid} |-> table[i]]

\* Faulty variant: the select without its restaurant filter
SelectLeavesUnscoped(table, rid) == table

\* .from("staff_leaves").select(...).eq("restaurant_id", rid)
SelectLeaves(table, rid) ==
  [i \in {j \in DOMAIN table : table[j].restaurant_id = rid} |-> table[i]]

\* .insert(row): the backend assigns the next identity
InsertRow(table, row) ==
  [i \in DOMAIN table \cup {Cardinality(DOMAIN table) + 1} |->
     IF i \in DOMAIN table THEN table[i] ELSE row]

\* Faulty variant: an update that carries a precondition on the current status
UpdateStatusIfPending(table, leaveId, status) ==
  [i \in DOMAIN table |->
     IF i = leaveId /\ table[i].status = "pending"
       THEN [table[i] EXCEPT !.status = status] ELSE table[i]]

\* .update({ status }).eq("id", leaveId): every row with that id, whatever its
\* current status; no row with that id is no error
UpdateStatus(table, leaveId, status) ==
  [i \in DOMAIN table |->
     IF i = leaveId THEN [table[i] EXCEPT !.status = status] ELSE table[i]]

\* ------------------------------------------------- StaffLeaveManager state
\* Faulty variant: queries that are enabled whatever the restaurant id
EnabledAlways(rid) == TRUE

\* enabled: !!restaurantId
Enabled(rid) == ~Falsy(rid)

restaurantId(c) == ridQ[c].data
staff(c) == staffQ[c].data
leaves(c) == leavesQ[c].data

\* data is undefined (read as [] by the `= []` default) until a fetch has
\* succeeded once: fetched
IdleQuery == [state |-> "idle", filter |-> Undefined, reply |-> <<>>, data |-> <<>>,
              fetched |-> FALSE]

\* a fetch of the query is sent with the restaurant id of the current render
StartFetch(q, rid) == [q EXCEPT !.state = "sent", !.filter = rid, !.reply = <<>>]

\* Faulty variant: a success path without its refetch() call
RefetchSkipped(q, rid) == {q}

\* refetch() of @tanstack/react-query (cancelRefetch defaults to true): a fetch
\* in flight is cancelled and re-sent when the query already has data, and
\* joined when it has none yet
Refetch(q, rid) ==
  IF q.state = "idle" \/ q.fetched THEN {StartFetch(q, rid)} ELSE {q}

\* Faulty variant: buttons shown for every row
ControlsShownAlways(c, l) == l \in DOMAIN leaves(c)

\* Faulty variant: buttons hidden for rejected rows only
ControlsShownNotRejected(c, l) ==
  l \in DOMAIN leaves(c) /\ leaves(c)[l].status # "rejected"

\* the approve/reject buttons of a row: leave.status === 'pending'
ControlsShown(c, l) == l \in DOMAIN leaves(c) /\ leaves(c)[l].status = "pending"

\* status: 'pending' | 'approved' | 'rejected'
Statuses == {"pending", "approved", "rejected"}

\* Faulty variant: a button that passes any status
StatusArgsAny == Statuses

\* the target statuses the two buttons pass to updateLeaveStatus
StatusArgs == {"approved", "rejected"}

\* Faulty variant: an insert that copies a status other than pending
LeaveInsertRowApproved(c) ==
  [staff_id |-> selectedStaffId[c], restaurant_id |-> restaurantId(c),
   start_date |-> startDate[c], end_date |-> endDate[c], reason |-> reason[c],
   status |-> "approved"]

\* the row handleAddLeave inserts
LeaveInsertRow(c) ==
  [staff_id |-> selectedStaffId[c], restaurant_id |-> restaurantId(c),
   start_date |-> startDate[c], end_date |-> endDate[c], reason |-> reason[c],
   status |-> "pending"]

\* Faulty variant: a guard that lets a request without an end date through
MissingInformationEndOptional(c) ==
  Falsy(selectedStaffId[c]) \/ Falsy(startDate[c]) \/ Falsy(restaurantId(c))

\* handleAddLeave's guard
MissingInformation(c) ==
  Falsy(selectedStaffId[c]) \/ Falsy(startDate[c]) \/ Falsy(endDate[c])
    \/ Falsy(restaurantId(c))

InFlight(c) ==
  Cardinality({m \in insertCalls : m.client = c})
    + Cardinality({m \in updateCalls : m.client = c})

\* ---------------------------------------------------- AddMenuItemForm state
NoFile == Undefined

\* the files the user can pick, with File.size and File.type
Files == {"photo.png", "exact.jpg", "huge.png", "notes.txt", "fake.bin"}
FileSize(f) ==
  CASE f = "photo.png" -> 2048
    [] f = "exact.jpg" -> 5 * 1024 * 1024
    [] f = "huge.png" -> 5 * 1024 * 1024 + 1
    [] f = "notes.txt" -> 2048
    [] f = "fake.bin" -> 2048
FileType(f) ==
  CASE f = "photo.png" -> <<"i", "m", "a", "g", "e", "/", "p", "n", "g">>
    [] f = "exact.jpg" -> <<"i", "m", "a", "g", "e", "/", "j", "p", "e", "g">>
    [] f = "huge.png" -> <<"i", "m", "a", "g", "e", "/", "p", "n", "g">>
    [] f = "notes.txt" -> <<"t", "e", "x", "t", "/", "p", "l", "a", "i", "n">>
    [] f = "fake.bin" -> <<"x", "-", "i", "m", "a", "g", "e", "/", "p", "n", "g">>

\* String.prototype.startsWith
StartsWith(str, prefix) ==
  Len(str) >= Len(prefix) /\ SubSeq(str, 1, Len(prefix)) = prefix

\* file.size > 5 * 1024 * 1024
TooLarge(f) == FileSize(f) > 5 * 1024 * 1024

\* Faulty variant: a type check that accepts every file
NotImageNever(f) == FALSE

\* !file.type.startsWith("image/")
NotImage(f) == ~StartsWith(FileType(f), <<"i", "m", "a", "g", "e", "/">>)

\* Faulty variant: a restaurant id taken for granted
ProfileRidAssumed == "r1"

\* userProfile?.restaurant_id
ProfileRid == profileQ.data

\* the views of the image field
DropZoneShown == selectedFile = NoFile /\ uploadedImageUrl = <<>>
FileViewShown == selectedFile # NoFile /\ uploadedImageUrl = <<>>
\* Faulty variant: an Upload button that stays while an upload runs
UploadButtonShownWhileUploading == FileViewShown
UploadButtonShown == FileViewShown /\ ~isUploading
\* disabled={isSubmitting || isUploading}
SubmitDisabled == isSubmitting \/ isUploading

\* the URL the image host gives to the image of attempt u
HostUrl(u) == <<u>>

\* the outcomes of the POST to the image host: the fetch rejects, or a response
\* with response.ok and a JSON body (status_code, image.url)
HostResponses(u) ==
  {[rejected |-> TRUE, ok |-> FALSE, status_code |-> 0, url |-> <<>>]}
  \cup [rejected : {FALSE}, ok : BOOLEAN, status_code : {200, 400},
        url : {<<>>, HostUrl(u)}]

NoBody == [rejected |-> TRUE, ok |-> FALSE, status_code |-> 0, url |-> <<>>]

\* Faulty variant: a response taken as good whatever its HTTP status
ResponseOkUnchecked(r) == ~r.rejected

\* the fetch resolved and response.ok
ResponseOk(r) == ~r.rejected /\ r.ok

\* Faulty variant: a body check that accepts every body with an image URL
BodyAcceptedAnyStatus(r) == r.url # <<>>

\* data.status_code === 200 && data.image && data.image.url
BodyAccepted(r) == r.status_code = 200 /\ r.url # <<>>

InFlightUploads == {u \in DOMAIN uploads : uploads[u].pc \in {"reading", "posting", "parsing"}}
InFlightSubmits == {p \in DOMAIN submits : submits[p].pc \in {"uploading", "inserting"}}

\* the row onSubmit inserts
MenuInsertRow(imageUrl) ==
  [image_url |-> imageUrl, restaurant_id |-> ProfileRid, is_available |-> TRUE]

\* -------------------------------------------------------------- Staff state
\* editingStaff === null
NoStaff == 0
Names == {"Asha", "Dev"}

\* .from("staff").select("*").eq("restaurant_id", userProfile.restaurant_id)
SelectRoster(table, rid) ==
  [i \in {j \in DOMAIN table : table[j].restaurant_id = rid} |-> table[i]]

\* Faulty variant: an insert that leaves the restaurant_id out
InsertStaffNoTenant(table, id, staffData, rid) ==
  [i \in DOMAIN table \cup {id} |->
     IF i = id THEN [restaurant_id |-> Undefined, first_name |-> staffData.first_name]
     ELSE table[i]]

\* .insert([{ ...staffData, restaurant_id }]): the backend assigns a new identity
InsertStaff(table, id, staffData, rid) ==
  [i \in DOMAIN table \cup {id} |->
     IF i = id THEN [restaurant_id |-> rid, first_name |-> staffData.first_name]
     ELSE table[i]]

\* .update({ ...staffData }).eq("id", editingStaff.id)
UpdateStaff(table, id, staffData) ==
  [i \in DOMAIN table |->
     IF i = id THEN [table[i] EXCEPT !.first_name = staffData.first_name]
     ELSE table[i]]

\* .delete().eq("id", id)
DeleteStaff(table, id) == [i \in DOMAIN table \ {id} |-> table[i]]

\* the queryFn starts with the tenant lookup
StartRosterFetch(q) == [q EXCEPT !.state = "resolving", !.filter = Undefined,
                                 !.reply = <<>>]

\* Faulty variant: refetch() joins whatever fetch is in flight
RefetchRosterJoining(q) ==
  IF q.state = "idle" THEN {StartRosterFetch(q)} ELSE {q}

\* refetch(): a fetch in flight is cancelled and re-run when the query already
\* has data, and joined when it has none yet
RefetchRoster(q) ==
  IF q.state = "idle" \/ q.fetched THEN {StartRosterFetch(q)} ELSE {q}

\* ------------------------------------------------------------------- Init
NoSession == [user |-> Undefined, restaurant_id |-> Undefined]
NoProfile(u) == [user |-> u, restaurant_id |-> Undefined]
Member(u, r) == [user |-> u, restaurant_id |-> r]

\* the scenarios with the sessions each is explored under
Setups ==
  {<<"request", 1 :> s>> : s \in {NoSession, NoProfile("u1"), Member("u1", "r1")}}
  \cup {<<"menu", 1 :> s>> : s \in {NoSession, NoProfile("u1"), Member("u1", "r1")}}
  \cup {<<"staff", 1 :> s>> : s \in {NoSession, NoProfile("u1"), Member("u1", "r1")}}
  \cup {<<"review", [c \in Clients |-> Member(ToString(c), "r1")]>>}

InitStaffTable ==
  (1 :> [restaurant_id |-> "r1", first_name |-> "Asha"]) @@
  (2 :> [restaurant_id |-> "r2", first_name |-> "Bela"])

InitLeavesTable ==
  (1 :> [staff_id |-> "1", restaurant_id |-> "r1", start_date |-> "2024-01-01",
         end_date |-> "2024-01-01", reason |-> "", status |-> "pending"]) @@
  (2 :> [staff_id |-> "2", restaurant_id |-> "r2", start_date |-> "2024-01-01",
         end_date |-> "2024-01-01", reason |-> "", status |-> "pending"])

Init ==
  /\ \E su \in Setups :
       /\ mounted = su[1]
       /\ session = [c \in Clients |-> IF c \in DOMAIN su[2] THEN su[2][c] ELSE NoSession]
  /\ staffTable = InitStaffTable
  /\ leavesTable = InitLeavesTable
  /\ ridQ = [c \in Clients |-> [status |-> "pending", data |-> Undefined]]
  /\ staffQ = [c \in Clients |-> IdleQuery]
  /\ leavesQ = [c \in Clients |-> IdleQuery]
  /\ isAddLeaveOpen = [c \in Clients |-> FALSE]
  /\ selectedStaffId = [c \in Clients |-> ""]
  /\ startDate = [c \in Clients |-> ""]
  /\ endDate = [c \in Clients |-> ""]
  /\ reason = [c \in Clients |-> ""]
  /\ insertCalls = {}
  /\ updateCalls = {}
  /\ profileQ = [status |-> "pending", data |-> Undefined]
  /\ menuFormOpen = TRUE
  /\ selectedFile = NoFile
  /\ isUploading = FALSE
  /\ uploadedImageUrl = <<>>
  /\ uploadProgress = 0
  /\ isSubmitting = FALSE
  /\ formImageUrl = <<>>
  /\ uploads = <<>>
  /\ submits = <<>>
  /\ menuTable = <<>>
  /\ toast = ""
  /\ rosterQ = IdleQuery
  /\ isAddDialogOpen = FALSE
  /\ editingStaff = NoStaff
  /\ rosterCalls = {}
  /\ staffSeq = Cardinality(DOMAIN InitStaffTable)

\* ------------------------------------------------ StaffLeaveManager actions
backend == <<session, staffTable, leavesTable>>
leaveForm == <<isAddLeaveOpen, selectedStaffId, startDate, endDate, reason>>

\* the outcomes of the restaurant-id queryFn: it throws without a user, else it
\* returns userProfile?.restaurant_id unchecked; a null restaurant_id is a
\* successful result, and the undefined of a missing profiles row is one the
\* query library turns into an error
RestaurantIdOutcomes(c) ==
  IF Falsy(GetUser(c))
    THEN {[status |-> "error", data |-> Undefined]}
    ELSE IF Falsy(ProfileRestaurantId(c))
      THEN {[status |-> "success", data |-> Undefined],
            [status |-> "error", data |-> Undefined]}
      ELSE {[status |-> "success", data |-> ProfileRestaurantId(c)]}

\* the restaurant-id queryFn settles; the render that follows enables and
\* starts the two dependent queries when !!restaurantId
ResolveRestaurantId(c) ==
  /\ OnLeave(c)
  /\ ridQ[c].status = "pending"
  /\ \E rq \in RestaurantIdOutcomes(c) :
        /\ ridQ' = [ridQ EXCEPT ![c] = rq]
        /\ staffQ' = [staffQ EXCEPT ![c] =
             IF Enabled(rq.data) THEN StartFetch(@, rq.data) ELSE @]
        /\ leavesQ' = [leavesQ EXCEPT ![c] =
             IF Enabled(rq.data) THEN StartFetch(@, rq.data) ELSE @]
  /\ UNCHANGED <<mounted, menuVars, rosterVars, backend, leaveForm, insertCalls, updateCalls, toast>>

\* the staff query's fetch completes (the staff table is not written while
\* this screen is mounted, so the read and the delivery are one step)
StaffFetchDone(c) ==
  /\ OnLeave(c)
  /\ staffQ[c].state = "sent"
  /\ \/ staffQ' = [staffQ EXCEPT ![c] =
          [staffQ[c] EXCEPT !.state = "idle", !.fetched = TRUE,
                            !.data = SelectStaff(staffTable, staffQ[c].filter)]]
     \/ staffQ' = [staffQ EXCEPT ![c] = [staffQ[c] EXCEPT !.state = "idle"]]
  /\ UNCHANGED <<mounted, menuVars, rosterVars, backend, ridQ, leavesQ, leaveForm, insertCalls,
                 updateCalls, toast>>

\* the backend answers the staff-leaves select
LeavesBackendRead(c) ==
  /\ OnLeave(c)
  /\ leavesQ[c].state = "sent"
  /\ leavesQ' = [leavesQ EXCEPT ![c] =
       [leavesQ[c] EXCEPT !.state = "replied",
                          !.reply = SelectLeaves(leavesTable, leavesQ[c].filter)]]
  /\ UNCHANGED <<mounted, menuVars, rosterVars, backend, ridQ, staffQ, leaveForm, insertCalls,
                 updateCalls, toast>>

\* the reply reaches the client: data is replaced
LeavesFetchDone(c) ==
  /\ OnLeave(c)
  /\ leavesQ[c].state = "replied"
  /\ leavesQ' = [leavesQ EXCEPT ![c] =
       [leavesQ[c] EXCEPT !.state = "idle", !.data = leavesQ[c].reply,
                          !.reply = <<>>, !.fetched = TRUE]]
  /\ UNCHANGED <<mounted, menuVars, rosterVars, backend, ridQ, staffQ, leaveForm, insertCalls,
                 updateCalls, toast>>

\* if (error) throw error: the fetch fails and data stays what it was
LeavesFetchFail(c) ==
  /\ OnLeave(c)
  /\ leavesQ[c].state = "sent"
  /\ leavesQ' = [leavesQ EXCEPT ![c] = [@ EXCEPT !.state = "idle"]]
  /\ UNCHANGED <<mounted, menuVars, rosterVars, backend, ridQ, staffQ, leaveForm, insertCalls,
                 updateCalls, toast>>

\* the query library refetches an enabled query on window focus / reconnect
LeavesAutoRefetch(c) ==
  /\ OnLeave(c)
  /\ Enabled(restaurantId(c))
  /\ leavesQ[c].state = "idle"
  /\ leavesQ' = [leavesQ EXCEPT ![c] = StartFetch(@, restaurantId(c))]
  /\ UNCHANGED <<mounted, menuVars, rosterVars, backend, ridQ, staffQ, leaveForm, insertCalls,
                 updateCalls, toast>>

\* Dialog onOpenChange={setIsAddLeaveOpen}
SetIsAddLeaveOpen(c, open) ==
  /\ UsesDialog(c)
  /\ isAddLeaveOpen[c] # open
  /\ isAddLeaveOpen' = [isAddLeaveOpen EXCEPT ![c] = open]
  /\ UNCHANGED <<mounted, menuVars, rosterVars, backend, ridQ, staffQ, leavesQ, selectedStaffId,
                 startDate, endDate, reason, insertCalls, updateCalls, toast>>

\* Select onValueChange={setSelectedStaffId}: one of the staff.map items
SetSelectedStaffId(c, v) ==
  /\ UsesDialog(c)
  /\ isAddLeaveOpen[c]
  /\ v \in DOMAIN staff(c)
  /\ selectedStaffId' = [selectedStaffId EXCEPT ![c] = ToString(v)]
  /\ UNCHANGED <<mounted, menuVars, rosterVars, backend, ridQ, staffQ, leavesQ, isAddLeaveOpen,
                 startDate, endDate, reason, insertCalls, updateCalls, toast>>

\* onChange={(e) => setStartDate(e.target.value)}
SetStartDate(c, v) ==
  /\ UsesDialog(c)
  /\ isAddLeaveOpen[c]
  /\ startDate' = [startDate EXCEPT ![c] = v]
  /\ UNCHANGED <<mounted, menuVars, rosterVars, backend, ridQ, staffQ, leavesQ, isAddLeaveOpen,
                 selectedStaffId, endDate, reason, insertCalls, updateCalls, toast>>

\* onChange={(e) => setEndDate(e.target.value)}
SetEndDate(c, v) ==
  /\ UsesDialog(c)
  /\ isAddLeaveOpen[c]
  /\ endDate' = [endDate EXCEPT ![c] = v]
  /\ UNCHANGED <<mounted, menuVars, rosterVars, backend, ridQ, staffQ, leavesQ, isAddLeaveOpen,
                 selectedStaffId, startDate, reason, insertCalls, updateCalls, toast>>

\* onChange={(e) => setReason(e.target.value)}
SetReason(c, v) ==
  /\ UsesDialog(c)
  /\ isAddLeaveOpen[c]
  /\ reason' = [reason EXCEPT ![c] = v]
  /\ UNCHANGED <<mounted, menuVars, rosterVars, backend, ridQ, staffQ, leavesQ, isAddLeaveOpen,
                 selectedStaffId, startDate, endDate, insertCalls, updateCalls, toast>>

\* handleAddLeave up to its await: the guard with its toast, or the insert is
\* sent
HandleAddLeave(c) ==
  /\ UsesDialog(c)
  /\ isAddLeaveOpen[c]
  /\ IF MissingInformation(c)
       THEN toast' = "Missing information" /\ UNCHANGED insertCalls
       ELSE /\ InFlight(c) < MaxCalls
            /\ insertCalls' = insertCalls \cup
                 {[client |-> c, row |-> LeaveInsertRow(c), res |-> "sent"]}
            /\ UNCHANGED toast
  /\ UNCHANGED <<mounted, menuForm, rosterVars, backend, ridQ, staffQ, leavesQ, leaveForm,
                 updateCalls>>

\* the backend runs the insert, or fails it
BackendInsertLeave(m) ==
  /\ m \in insertCalls
  /\ m.res = "sent"
  /\ \/ /\ Cardinality(DOMAIN leavesTable) < MaxLeaves
        /\ leavesTable' = InsertRow(leavesTable, m.row)
        /\ insertCalls' = (insertCalls \ {m}) \cup {[m EXCEPT !.res = "ok"]}
     \/ /\ insertCalls' = (insertCalls \ {m}) \cup {[m EXCEPT !.res = "error"]}
        /\ UNCHANGED leavesTable
  /\ UNCHANGED <<mounted, menuVars, rosterVars, session, staffTable, ridQ, staffQ, leavesQ, leaveForm,
                 updateCalls, toast>>

\* handleAddLeave after its await: reset, close and refetch, or the catch
AddLeaveReturn(m) ==
  /\ m \in insertCalls
  /\ m.res # "sent"
  /\ insertCalls' = insertCalls \ {m}
  /\ IF m.res = "ok"
       THEN /\ toast' = "Leave request submitted"
            /\ selectedStaffId' = [selectedStaffId EXCEPT ![m.client] = ""]
            /\ startDate' = [startDate EXCEPT ![m.client] = ""]
            /\ endDate' = [endDate EXCEPT ![m.client] = ""]
            /\ reason' = [reason EXCEPT ![m.client] = ""]
            /\ isAddLeaveOpen' = [isAddLeaveOpen EXCEPT ![m.client] = FALSE]
            /\ \E q \in Refetch(leavesQ[m.client], restaurantId(m.client)) :
                 leavesQ' = [leavesQ EXCEPT ![m.client] = q]
       ELSE toast' = "Error" /\ UNCHANGED <<leaveForm, leavesQ>>
  /\ UNCHANGED <<mounted, menuForm, rosterVars, backend, ridQ, staffQ, updateCalls>>

\* updateLeaveStatus up to its await, from a button of a displayed row
UpdateLeaveStatus(c, leaveId, status) ==
  /\ OnLeave(c)
  /\ ControlsShown(c, leaveId)
  /\ status \in StatusArgs
  /\ InFlight(c) < MaxCalls
  /\ updateCalls' = updateCalls \cup
       {[client |-> c, leaveId |-> leaveId, status |-> status, res |-> "sent"]}
  /\ UNCHANGED <<mounted, menuVars, rosterVars, backend, ridQ, staffQ, leavesQ, leaveForm, insertCalls,
                 toast>>

\* the backend runs the update, or fails it
BackendUpdateLeave(m) ==
  /\ m \in updateCalls
  /\ m.res = "sent"
  /\ \/ /\ leavesTable' = UpdateStatus(leavesTable, m.leaveId, m.status)
        /\ updateCalls' = (updateCalls \ {m}) \cup {[m EXCEPT !.res = "ok"]}
     \/ /\ updateCalls' = (updateCalls \ {m}) \cup {[m EXCEPT !.res = "error"]}
        /\ UNCHANGED leavesTable
  /\ UNCHANGED <<mounted, menuVars, rosterVars, session, staffTable, ridQ, staffQ, leavesQ, leaveForm,
                 insertCalls, toast>>

\* updateLeaveStatus after its await: toast and refetch, or the catch
UpdateLeaveReturn(m) ==
  /\ m \in updateCalls
  /\ m.res # "sent"
  /\ updateCalls' = updateCalls \ {m}
  /\ IF m.res = "ok"
       THEN \E q \in Refetch(leavesQ[m.client], restaurantId(m.client)) :
                 leavesQ' = [leavesQ EXCEPT ![m.client] = q]
       ELSE UNCHANGED leavesQ
  /\ UNCHANGED <<mounted, menuVars, rosterVars, backend, ridQ, staffQ, leaveForm, insertCalls, toast>>

LeaveIds == 1..MaxLeaves

\* ------------------------------------------------- AddMenuItemForm actions
menuBackend == <<mounted, session, staffTable, leavesTable, leaveVars, rosterVars>>

\* the userProfile queryFn settles
ResolveUserProfile ==
  /\ OnMenu
  /\ profileQ.status = "pending"
  /\ profileQ' =
       IF Falsy(GetUser(1)) \/ Falsy(ProfileRestaurantId(1))
         THEN [status |-> "error", data |-> Undefined]
         ELSE [status |-> "success", data |-> ProfileRestaurantId(1)]
  /\ UNCHANGED <<menuBackend, menuFormOpen, selectedFile, isUploading,
                 uploadedImageUrl, uploadProgress, isSubmitting, formImageUrl,
                 uploads, submits, menuTable, toast>>

\* handleFileChange, from the file input the drop zone opens
HandleFileChange(f) ==
  /\ OnMenu /\ menuFormOpen
  /\ DropZoneShown
  /\ IF TooLarge(f)
       THEN toast' = "File too large" /\ UNCHANGED selectedFile
       ELSE IF NotImage(f)
         THEN toast' = "Invalid file type" /\ UNCHANGED selectedFile
         ELSE selectedFile' = f /\ UNCHANGED toast
  /\ UNCHANGED <<menuBackend, profileQ, menuFormOpen, isUploading, uploadedImageUrl,
                 uploadProgress, isSubmitting, formImageUrl, uploads, submits,
                 menuTable>>

\* uploadImage up to its first await: a new attempt reads the selected file
StartUpload(caller) ==
  /\ selectedFile # NoFile
  /\ Len(uploads) < MaxUploads
  /\ isUploading' = TRUE
  /\ uploadProgress' = 10
  /\ uploads' = Append(uploads, [pc |-> "reading", file |-> selectedFile,
                                 caller |-> caller, body |-> NoBody])

\* the "Upload image" button
UploadImage ==
  /\ OnMenu /\ menuFormOpen
  /\ UploadButtonShown
  /\ StartUpload(0)
  /\ UNCHANGED <<menuBackend, profileQ, menuFormOpen, selectedFile, uploadedImageUrl,
                 isSubmitting, formImageUrl, submits, menuTable, toast>>

\* Faulty variant: the insert keeps data.image_url whatever the upload returned
ContinueSubmitFormUrl(u, uploadedUrl) ==
  IF uploads[u].caller = 0
    THEN UNCHANGED submits
    ELSE LET p == uploads[u].caller IN
         submits' = [submits EXCEPT ![p] =
           [@ EXCEPT !.pc = "inserting",
                     !.row = MenuInsertRow(submits[p].data_image_url)]]

\* onSubmit after `await uploadImage()`: the insert is sent with the uploaded
\* URL, or with data.image_url when the upload returned null
ContinueSubmit(u, uploadedUrl) ==
  IF uploads[u].caller = 0
    THEN UNCHANGED submits
    ELSE LET p == uploads[u].caller IN
         submits' = [submits EXCEPT ![p] =
           [@ EXCEPT !.pc = "inserting",
                     !.row = MenuInsertRow(IF uploadedUrl # <<>> THEN uploadedUrl
                                           ELSE submits[p].data_image_url)]]

\* uploadImage's catch and finally: toast, return null
UploadFails(u) ==
  /\ uploads' = [uploads EXCEPT ![u] = [@ EXCEPT !.pc = "failed", !.body = NoBody]]
  /\ toast' = "Upload failed"
  /\ isUploading' = FALSE
  /\ uploadProgress' = 0
  /\ ContinueSubmit(u, <<>>)
  /\ UNCHANGED <<uploadedImageUrl, formImageUrl>>

\* the FileReader finishes: the POST is sent, or the read failed
ReaderDone(u) ==
  /\ u \in DOMAIN uploads
  /\ uploads[u].pc = "reading"
  /\ \/ /\ uploads' = [uploads EXCEPT ![u] = [@ EXCEPT !.pc = "posting"]]
        /\ uploadProgress' = 50
        /\ UNCHANGED <<isUploading, uploadedImageUrl, formImageUrl, submits, toast>>
     \/ UploadFails(u)
  /\ UNCHANGED <<menuBackend, profileQ, menuFormOpen, selectedFile, isSubmitting,
                 menuTable>>

\* the image host answers (or the fetch rejects): !response.ok throws
HostAnswers(u, r) ==
  /\ u \in DOMAIN uploads
  /\ uploads[u].pc = "posting"
  /\ r \in HostResponses(u)
  /\ IF ResponseOk(r)
       THEN /\ uploads' = [uploads EXCEPT ![u] = [@ EXCEPT !.pc = "parsing", !.body = r]]
            /\ uploadProgress' = 80
            /\ UNCHANGED <<isUploading, uploadedImageUrl, formImageUrl, submits, toast>>
       ELSE UploadFails(u)
  /\ UNCHANGED <<menuBackend, profileQ, menuFormOpen, selectedFile, isSubmitting,
                 menuTable>>

\* response.json() resolves: uploadImage runs to its end
BodyParsed(u) ==
  /\ u \in DOMAIN uploads
  /\ uploads[u].pc = "parsing"
  /\ IF BodyAccepted(uploads[u].body)
       THEN /\ uploads' = [uploads EXCEPT ![u] =
                 [@ EXCEPT !.pc = "uploaded", !.body = NoBody]]
            /\ uploadedImageUrl' = uploads[u].body.url
            /\ formImageUrl' = uploads[u].body.url
            /\ toast' = "Image uploaded successfully"
            /\ isUploading' = FALSE
            /\ uploadProgress' = 0
            /\ ContinueSubmit(u, uploads[u].body.url)
       ELSE UploadFails(u)
  /\ UNCHANGED <<menuBackend, profileQ, menuFormOpen, selectedFile, isSubmitting,
                 menuTable>>

\* removeImage, from the X button of the file view or of the uploaded view
RemoveImage ==
  /\ OnMenu /\ menuFormOpen
  /\ FileViewShown \/ uploadedImageUrl # <<>>
  /\ selectedFile' = NoFile
  /\ uploadedImageUrl' = <<>>
  /\ formImageUrl' = <<>>
  /\ UNCHANGED <<menuBackend, profileQ, menuFormOpen, isUploading, uploadProgress,
                 isSubmitting, uploads, submits, menuTable, toast>>

\* onSubmit up to its first await
OnSubmit ==
  /\ OnMenu /\ menuFormOpen
  /\ ~SubmitDisabled
  /\ Len(submits) < MaxSubmits
  /\ LET p == Len(submits) + 1
         call == [pc |-> "inserting", data_image_url |-> formImageUrl, upload |-> 0,
                  row |-> MenuInsertRow(formImageUrl)]
     IN IF Falsy(ProfileRid)
          THEN /\ submits' = Append(submits, [call EXCEPT !.pc = "failed"])
               /\ toast' = "No restaurant assigned to user"
               /\ isSubmitting' = FALSE
               /\ UNCHANGED <<isUploading, uploadProgress, uploads>>
          ELSE IF selectedFile # NoFile /\ uploadedImageUrl = <<>>
            THEN /\ StartUpload(p)
                 /\ submits' = Append(submits, [call EXCEPT !.pc = "uploading",
                                                !.upload = Len(uploads) + 1])
                 /\ isSubmitting' = TRUE
                 /\ UNCHANGED toast
            ELSE /\ submits' = Append(submits, call)
                 /\ isSubmitting' = TRUE
                 /\ UNCHANGED <<isUploading, uploadProgress, uploads, toast>>
  /\ UNCHANGED <<menuBackend, profileQ, menuFormOpen, selectedFile, uploadedImageUrl,
                 formImageUrl, menuTable>>

\* the backend runs the menu_items insert, or fails it; onSubmit runs to its end
MenuInsertDone(p, ok) ==
  /\ p \in DOMAIN submits
  /\ submits[p].pc = "inserting"
  /\ IF ok
       THEN /\ menuTable' = Append(menuTable, submits[p].row)
            /\ submits' = [submits EXCEPT ![p] = [@ EXCEPT !.pc = "closed"]]
            /\ toast' = "Success"
            /\ menuFormOpen' = FALSE
       ELSE /\ submits' = [submits EXCEPT ![p] = [@ EXCEPT !.pc = "failed"]]
            /\ toast' = "Error"
            /\ UNCHANGED <<menuTable, menuFormOpen>>
  /\ isSubmitting' = FALSE
  /\ UNCHANGED <<menuBackend, profileQ, selectedFile, isUploading, uploadedImageUrl,
                 uploadProgress, formImageUrl, uploads>>

\* the Cancel and X buttons: onClose
CancelForm ==
  /\ OnMenu /\ menuFormOpen
  /\ menuFormOpen' = FALSE
  /\ UNCHANGED <<menuBackend, profileQ, selectedFile, isUploading, uploadedImageUrl,
                 uploadProgress, isSubmitting, formImageUrl, uploads, submits,
                 menuTable, toast>>


\* ------------------------------------------------------------ Staff actions
rosterFrame == <<mounted, session, leavesTable, leaveVars, menuVars>>

\* the staff query fetches on mount, and again on window focus / reconnect
RosterAutoFetch ==
  /\ OnStaff
  /\ rosterQ.state = "idle"
  /\ rosterQ' = StartRosterFetch(rosterQ)
  /\ UNCHANGED <<rosterFrame, staffTable, isAddDialogOpen, editingStaff, rosterCalls,
                 staffSeq>>

\* queryFn: getUser and the profiles lookup settle; it throws without a user
\* or a restaurant_id, else the staff select is sent
RosterResolve ==
  /\ rosterQ.state = "resolving"
  /\ rosterQ' =
       IF Falsy(GetUser(1)) \/ Falsy(ProfileRestaurantId(1))
         THEN [rosterQ EXCEPT !.state = "idle"]
         ELSE [rosterQ EXCEPT !.state = "sent", !.filter = ProfileRestaurantId(1)]
  /\ UNCHANGED <<rosterFrame, staffTable, isAddDialogOpen, editingStaff, rosterCalls,
                 staffSeq>>

\* the backend answers the staff select
RosterBackendRead ==
  /\ rosterQ.state = "sent"
  /\ rosterQ' = [rosterQ EXCEPT !.state = "replied",
                                !.reply = SelectRoster(staffTable, rosterQ.filter)]
  /\ UNCHANGED <<rosterFrame, staffTable, isAddDialogOpen, editingStaff, rosterCalls,
                 staffSeq>>

\* the reply reaches the client: data is replaced
RosterFetchDone ==
  /\ rosterQ.state = "replied"
  /\ rosterQ' = [rosterQ EXCEPT !.state = "idle", !.data = rosterQ.reply,
                                !.reply = <<>>, !.fetched = TRUE]
  /\ UNCHANGED <<rosterFrame, staffTable, isAddDialogOpen, editingStaff, rosterCalls,
                 staffSeq>>

\* if (error) throw error: the fetch fails and data stays what it was
RosterFetchFail ==
  /\ rosterQ.state = "sent"
  /\ rosterQ' = [rosterQ EXCEPT !.state = "idle"]
  /\ UNCHANGED <<rosterFrame, staffTable, isAddDialogOpen, editingStaff, rosterCalls,
                 staffSeq>>

\* the "Add Staff Member" button: setEditingStaff(null), the dialog opens
AddStaffButton ==
  /\ OnStaff
  /\ ~isAddDialogOpen
  /\ editingStaff' = NoStaff
  /\ isAddDialogOpen' = TRUE
  /\ UNCHANGED <<rosterFrame, staffTable, rosterQ, rosterCalls, staffSeq>>

\* the Edit button of a card: setEditingStaff(member); setIsAddDialogOpen(true)
\* (the dialog is modal: the cards are not reachable while it is open)
EditStaffButton(id) ==
  /\ OnStaff
  /\ ~isAddDialogOpen
  /\ id \in DOMAIN rosterQ.data
  /\ editingStaff' = id
  /\ isAddDialogOpen' = TRUE
  /\ UNCHANGED <<rosterFrame, staffTable, rosterQ, rosterCalls, staffSeq>>

\* the dialog is dismissed: onOpenChange(false)
DismissStaffDialog ==
  /\ OnStaff
  /\ isAddDialogOpen
  /\ isAddDialogOpen' = FALSE
  /\ UNCHANGED <<rosterFrame, staffTable, rosterQ, editingStaff, rosterCalls, staffSeq>>

\* handleSubmit up to its first await (getUser)
HandleSubmit(firstName) ==
  /\ OnStaff
  /\ isAddDialogOpen
  /\ Cardinality(rosterCalls) < MaxCalls
  /\ rosterCalls' = rosterCalls \cup
       {[op |-> "submit", id |-> editingStaff, staffData |-> [first_name |-> firstName],
         restaurant_id |-> Undefined, pc |-> "resolving"]}
  /\ UNCHANGED <<rosterFrame, staffTable, rosterQ, isAddDialogOpen, editingStaff,
                 staffSeq>>

\* handleSubmit: the tenant lookup settles; it throws to the catch without a
\* user or a restaurant_id, else the update or the insert is sent
SubmitResolve(m) ==
  /\ m \in rosterCalls
  /\ m.pc = "resolving"
  /\ rosterCalls' = (rosterCalls \ {m}) \cup
       (IF Falsy(GetUser(1)) \/ Falsy(ProfileRestaurantId(1))
          THEN {}
          ELSE {[m EXCEPT !.pc = "sent", !.restaurant_id = ProfileRestaurantId(1)]})
  /\ UNCHANGED <<rosterFrame, staffTable, rosterQ, isAddDialogOpen, editingStaff,
                 staffSeq>>

\* handleDelete up to its await, from the Delete button of a card
HandleDelete(id) ==
  /\ OnStaff
  /\ id \in DOMAIN rosterQ.data
  /\ Cardinality(rosterCalls) < MaxCalls
  /\ rosterCalls' = rosterCalls \cup
       {[op |-> "delete", id |-> id, staffData |-> [first_name |-> ""],
         restaurant_id |-> Undefined, pc |-> "sent"]}
  /\ UNCHANGED <<rosterFrame, staffTable, rosterQ, isAddDialogOpen, editingStaff,
                 staffSeq>>

\* the backend runs the update, insert or delete, or fails it
BackendStaffWrite(m) ==
  /\ m \in rosterCalls
  /\ m.pc = "sent"
  /\ \/ /\ rosterCalls' = (rosterCalls \ {m}) \cup {[m EXCEPT !.pc = "ok"]}
        /\ IF m.op = "delete"
             THEN staffTable' = DeleteStaff(staffTable, m.id) /\ UNCHANGED staffSeq
             ELSE IF m.id # NoStaff
               THEN staffTable' = UpdateStaff(staffTable, m.id, m.staffData)
                    /\ UNCHANGED staffSeq
               ELSE /\ staffSeq < MaxStaff
                    /\ staffSeq' = staffSeq + 1
                    /\ staffTable' =
                         InsertStaff(staffTable, staffSeq + 1, m.staffData, m.restaurant_id)
     \/ /\ rosterCalls' = (rosterCalls \ {m}) \cup {[m EXCEPT !.pc = "error"]}
        /\ UNCHANGED <<staffTable, staffSeq>>
  /\ UNCHANGED <<rosterFrame, rosterQ, isAddDialogOpen, editingStaff>>

\* handleSubmit after its awaits: refetch, close the dialog, clear editingStaff;
\* or the catch
SubmitReturn(m) ==
  /\ m \in rosterCalls
  /\ m.op = "submit"
  /\ m.pc \in {"ok", "error"}
  /\ rosterCalls' = rosterCalls \ {m}
  /\ IF m.pc = "ok"
       THEN /\ rosterQ' \in RefetchRoster(rosterQ)
            /\ isAddDialogOpen' = FALSE
            /\ editingStaff' = NoStaff
       ELSE UNCHANGED <<rosterQ, isAddDialogOpen, editingStaff>>
  /\ UNCHANGED <<rosterFrame, staffTable, staffSeq>>

\* handleDelete after its await: refetch, or the catch
DeleteReturn(m) ==
  /\ m \in rosterCalls
  /\ m.op = "delete"
  /\ m.pc \in {"ok", "error"}
  /\ rosterCalls' = rosterCalls \ {m}
  /\ IF m.pc = "ok"
       THEN rosterQ' \in RefetchRoster(rosterQ)
       ELSE UNCHANGED rosterQ
  /\ UNCHANGED <<rosterFrame, staffTable, isAddDialogOpen, editingStaff, staffSeq>>

Next ==
  \/ \E c \in Clients : ResolveRestaurantId(c)
  \/ \E c \in Clients : StaffFetchDone(c)
  \/ \E c \in Clients : LeavesBackendRead(c)
  \/ \E c \in Clients : LeavesFetchDone(c)
  \/ \E c \in Clients : LeavesFetchFail(c)
  \/ \E c \in Clients : LeavesAutoRefetch(c)
  \/ \E c \in Clients, open \in BOOLEAN : SetIsAddLeaveOpen(c, open)
  \/ \E c \in Clients, v \in DOMAIN staffTable : SetSelectedStaffId(c, v)
  \/ \E c \in Clients, v \in Dates \cup {""} : SetStartDate(c, v)
  \/ \E c \in Clients, v \in Dates \cup {""} : SetEndDate(c, v)
  \/ \E c \in Clients, v \in Reasons \cup {""} : SetReason(c, v)
  \/ \E c \in Clients : HandleAddLeave(c)
  \/ \E m \in insertCalls : BackendInsertLeave(m)
  \/ \E m \in insertCalls : AddLeaveReturn(m)
  \/ \E c \in Clients, l \in LeaveIds, st \in Statuses : UpdateLeaveStatus(c, l, st)
  \/ \E m \in updateCalls : BackendUpdateLeave(m)
  \/ \E m \in updateCalls : UpdateLeaveReturn(m)
  \/ ResolveUserProfile
  \/ \E f \in Files : HandleFileChange(f)
  \/ UploadImage
  \/ \E u \in 1..MaxUploads : ReaderDone(u)
  \/ \E u \in 1..MaxUploads : \E r \in HostResponses(u) : HostAnswers(u, r)
  \/ \E u \in 1..MaxUploads : BodyParsed(u)
  \/ RemoveImage
  \/ OnSubmit
  \/ \E p \in 1..MaxSubmits, ok \in BOOLEAN : MenuInsertDone(p, ok)
  \/ CancelForm
  \/ RosterAutoFetch
  \/ RosterResolve
  \/ RosterBackendRead
  \/ RosterFetchDone
  \/ RosterFetchFail
  \/ AddStaffButton
  \/ \E id \in 1..MaxStaff : EditStaffButton(id)
  \/ DismissStaffDialog
  \/ \E n \in Names : HandleSubmit(n)
  \/ \E m \in rosterCalls : SubmitResolve(m)
  \/ \E id \in 1..MaxStaff : HandleDelete(id)
  \/ \E m \in rosterCalls : BackendStaffWrite(m)
  \/ \E m \in rosterCalls : SubmitReturn(m)
  \/ \E m \in rosterCalls : DeleteReturn(m)

Spec == Init /\ [][Next]_vars

\* ===================================================================== claims
Decided(l) == l \in DOMAIN leavesTable /\ leavesTable[l].status # "pending"
DisplayedPending(c, l) ==
  l \in DOMAIN leavesQ[c].data /\ leavesQ[c].data[l].status = "pending"
ReplyPending(c, l) ==
  l \in DOMAIN leavesQ[c].reply /\ leavesQ[c].reply[l].status = "pending"

\* C1 as stated: once an updateLeaveStatus call has succeeded for a leave (its
\* stored status is no longer pending), no later call changes the stored status.
C1_Original ==
  [][\A l \in DOMAIN leavesTable :
       Decided(l) => leavesTable'[l].status = leavesTable[l].status]_vars

\* a decided leave that no client displays as pending, with no update call and
\* no fetch reply showing it pending on its way
Final(l) ==
  /\ Decided(l)
  /\ \A c \in Clients : ~DisplayedPending(c, l) /\ ~ReplyPending(c, l)
  /\ \A m \in updateCalls : m.leaveId = l => m.res # "sent"

\* C1 (amended): once a leave is decided and no client displays it as pending
\* (and no update call or stale reply for it is in flight), its stored status
\* never changes again and it stays that way; only a call issued from a list
\* that still shows the leave as pending can overwrite a decided status.
C1_FinalOnceNotDisplayedPending ==
  [][\A l \in DOMAIN leavesTable :
       Final(l) => leavesTable'[l].status = leavesTable[l].status /\ Final(l)']_vars

C1_Witness ==
  \E l \in DOMAIN leavesTable :
    /\ Final(l)
    /\ \E c \in Clients : l \in DOMAIN leavesQ[c].data

\* C2: a leave whose stored status is approved or rejected is never set back
\* to pending (and never removed) by any step of any client.
C2_NeverBackToPending ==
  [][\A l \in DOMAIN leavesTable :
       leavesTable[l].status \in {"approved", "rejected"} =>
         /\ l \in DOMAIN leavesTable'
         /\ leavesTable'[l].status \in {"approved", "rejected"}]_vars

C2_Witness ==
  /\ Cardinality(DOMAIN leavesTable) > Cardinality(DOMAIN InitLeavesTable)
  /\ \E l \in DOMAIN leavesTable : leavesTable[l].status = "rejected"
  /\ \E c \in Clients : leavesQ[c].state = "replied"

\* C3: an update call that the backend runs successfully stores its status
\* whatever the current status is (no precondition, last write wins); two calls
\* on the same leave with different statuses can both succeed.
C3_LastWriteWins ==
  [][\A m \in updateCalls :
       LET ok == [m EXCEPT !.res = "ok"] IN
       (m.res = "sent" /\ m \notin updateCalls' /\ ok \in updateCalls'
          /\ ok \notin updateCalls)
         => leavesTable'[m.leaveId].status = m.status]_vars

C3_Witness ==
  \E m1, m2 \in updateCalls :
    /\ m1.res = "ok" /\ m2.res = "ok"
    /\ m1.leaveId = m2.leaveId /\ m1.status # m2.status
    /\ leavesTable[m1.leaveId].status = m1.status

\* C4 as stated: the controls are never shown for a leave whose stored status
\* has left pending.
C4_Original ==
  \A c \in Clients : \A l \in DOMAIN leavesTable : Decided(l) => ~DisplayedPending(c, l)

\* C4 (amended): an update call is only ever issued for a row the client
\* displays as pending; the backend's reply to a list fetch shows every row with
\* its stored status, and delivering the reply replaces the list, so the
\* controls of a decided leave are gone once a reply read after the transition
\* has been delivered (until then they remain shown).
C4_ControlsOnlyWhilePending ==
  [][/\ \A m \in updateCalls' \ updateCalls :
          m.res = "sent" => DisplayedPending(m.client, m.leaveId)
     /\ \A c \in Clients :
          /\ (leavesQ[c].state = "sent" /\ leavesQ'[c].state = "replied") =>
               \A l \in DOMAIN leavesQ'[c].reply :
                 leavesQ'[c].reply[l].status = leavesTable[l].status
          /\ (leavesQ[c].state = "replied" /\ leavesQ'[c].state = "idle") =>
               \A l \in DOMAIN leavesTable :
                 DisplayedPending(c, l)' <=> ReplyPending(c, l)]_vars

C4_Witness ==
  \E c \in Clients : \E l \in DOMAIN leavesQ[c].data :
    /\ Decided(l)
    /\ leavesQ[c].data[l].status = leavesTable[l].status
    /\ leavesQ[c].state = "idle"

\* C5: every row that appears in staff_leaves is created with status pending,
\* whatever the form held.
C5_InsertedPending ==
  [][\A l \in DOMAIN leavesTable' \ DOMAIN leavesTable :
       leavesTable'[l].status = "pending"]_vars

C5_Witness ==
  \E l \in DOMAIN leavesTable \ DOMAIN InitLeavesTable :
    leavesTable[l].reason = "sick" /\ leavesTable[l].status = "pending"

UploadsInFlight == {"reading", "posting", "parsing"}
\* attempt u ends in this step without an accepted response
UploadFailsNow(u) ==
  /\ uploads[u].pc \in UploadsInFlight
  /\ uploads'[u].pc \notin UploadsInFlight
  /\ ~(uploads[u].pc = "parsing" /\ uploads[u].body.status_code = 200
         /\ uploads[u].body.url # <<>>)

\* C6: a failed upload attempt leaves uploadedImageUrl and the form's image_url
\* unchanged; when onSubmit made the attempt, the insert it then sends carries
\* the image_url the form held at submission; the URL of a failed attempt is
\* never in uploadedImageUrl, the form, an insert or a stored row.
C6_FailedUploadUrlUnused ==
  [][/\ \A u \in DOMAIN uploads : UploadFailsNow(u) =>
          /\ uploads'[u].pc = "failed"
          /\ uploadedImageUrl' = uploadedImageUrl
          /\ formImageUrl' = formImageUrl
          /\ uploads[u].caller # 0 =>
               /\ submits'[uploads[u].caller].pc = "inserting"
               /\ submits'[uploads[u].caller].row.image_url
                    = submits[uploads[u].caller].data_image_url
     /\ \A u \in DOMAIN uploads' : uploads'[u].pc = "failed" =>
          /\ uploadedImageUrl' # HostUrl(u)
          /\ formImageUrl' # HostUrl(u)
          /\ \A p \in DOMAIN submits' : submits'[p].row.image_url # HostUrl(u)
          /\ \A i \in DOMAIN menuTable' : menuTable'[i].image_url # HostUrl(u)]_vars

C6_Witness ==
  \E p \in DOMAIN submits :
    /\ submits[p].pc = "closed"
    /\ submits[p].upload # 0
    /\ uploads[submits[p].upload].pc = "failed"
    /\ menuTable # <<>>

\* C7 as stated: in each form flow, a submission in which a stage failed
\* (tenant lookup, image upload, backend insert/update) does not perform the
\* form's close action.
C7_Original ==
  [][/\ \A p \in DOMAIN submits' :
          submits'[p].pc = "closed" =>
            (submits'[p].upload = 0 \/ uploads'[submits'[p].upload].pc # "failed")
     /\ \A p \in DOMAIN submits' :
          (submits'[p].pc = "failed" /\ (p \notin DOMAIN submits \/ submits[p].pc # "failed"))
            => menuFormOpen' = menuFormOpen
     /\ \A m \in insertCalls \ insertCalls' :
          m.res = "error" => isAddLeaveOpen' = isAddLeaveOpen
     /\ \A m \in rosterCalls \ rosterCalls' :
          (m.op = "submit" /\ m.pc \in {"resolving", "error"} /\ rosterCalls' = rosterCalls \ {m})
            => isAddDialogOpen' = isAddDialogOpen]_vars

\* C8: the selected file, and the file of every upload attempt, is at most
\* 5 MiB and has a MIME type that starts with image/.
C8_OnlyValidFilesSelected ==
  LET Valid(f) == /\ FileSize(f) <= 5242880
                  /\ Len(FileType(f)) >= 6
                  /\ SubSeq(FileType(f), 1, 6) = <<"i", "m", "a", "g", "e", "/">>
  IN /\ selectedFile # NoFile => Valid(selectedFile)
     /\ \A u \in DOMAIN uploads : Valid(uploads[u].file)

C8_Witness ==
  /\ toast = "Invalid file type"
  /\ selectedFile = NoFile
  /\ \E u \in DOMAIN uploads : uploads[u].file = "exact.jpg"

\* C9: every staff row and leave row a client displays belongs to the
\* restaurant resolved for that client's user.
C9_ListsScopedToTenant ==
  /\ \A c \in Clients :
       /\ \A l \in DOMAIN leavesQ[c].data :
            leavesQ[c].data[l].restaurant_id = ridQ[c].data
       /\ \A i \in DOMAIN staffQ[c].data :
            staffQ[c].data[i].restaurant_id = ridQ[c].data
  /\ \A i \in DOMAIN rosterQ.data :
       rosterQ.data[i].restaurant_id = session[1].restaurant_id

C9_Witness ==
  \E c \in Clients :
    /\ DOMAIN leavesQ[c].data # {}
    /\ DOMAIN staffQ[c].data # {}
    /\ \E l \in DOMAIN leavesTable : leavesTable[l].restaurant_id # ridQ[c].data
    /\ Cardinality(DOMAIN leavesTable) > Cardinality(DOMAIN InitLeavesTable)

\* C10: a staff or staff_leaves select is in flight only with a present
\* restaurant id as its filter, resolved by a successful lookup; while the
\* lookup is pending, failed or without an identifier no list is fetched and
\* the lists stay empty.
C10_NoUnscopedRead ==
  /\ \A c \in Clients :
       /\ \A q \in {staffQ[c], leavesQ[c]} :
            /\ q.state # "idle" =>
                 q.filter \notin {"", Undefined} /\ q.filter = ridQ[c].data
            /\ (ridQ[c].status # "success" \/ ridQ[c].data \in {"", Undefined}) =>
                 q.state = "idle" /\ q.data = <<>>
  /\ rosterQ.state \in {"sent", "replied"} =>
       rosterQ.filter \notin {"", Undefined} /\ rosterQ.filter = session[1].restaurant_id
  /\ session[1].restaurant_id \in {"", Undefined} => rosterQ.data = <<>>

C10_Witness ==
  /\ ridQ[1].status = "success"
  /\ ridQ[1].data = Undefined
  /\ isAddLeaveOpen[1]
  /\ startDate[1] # "" /\ endDate[1] # ""

\* the session gives the lookup of client c nothing to resolve: no authenticated
\* user, or a profile that is missing or has no restaurant_id
NoTenant(c) == Falsy(GetUser(c)) \/ Falsy(ProfileRestaurantId(c))

\* C11 as stated: in each of the three resolvers the lookup ends in an error
\* outcome when there is no authenticated user and when the profile is missing
\* or has no restaurant_id: the restaurant-id and userProfile queries settle
\* with status error, Staff's queryFn sends no select and delivers nothing, and
\* handleSubmit goes to its catch without a write.
C11_Original ==
  [][/\ \A c \in Clients :
          (ridQ[c].status = "pending" /\ ridQ'[c].status # "pending" /\ NoTenant(c))
            => ridQ'[c].status = "error"
     /\ (profileQ.status = "pending" /\ profileQ'.status # "pending" /\ NoTenant(1))
          => profileQ'.status = "error"
     /\ (rosterQ.state = "resolving" /\ rosterQ'.state # "resolving" /\ NoTenant(1))
          => rosterQ'.state = "idle" /\ rosterQ'.data = rosterQ.data
     /\ \A m \in rosterCalls \ rosterCalls' :
          (m.pc = "resolving" /\ NoTenant(1))
            => rosterCalls' = rosterCalls \ {m} /\ staffTable' = staffTable]_vars

\* a handleDelete(id) call has succeeded and returned: the row is gone from the
\* staff table and no successful delete of it still awaits its continuation
DeleteSucceeded(id) ==
  /\ id \in 1..staffSeq
  /\ id \notin DOMAIN staffTable
  /\ \A m \in rosterCalls : ~(m.op = "delete" /\ m.id = id /\ m.pc = "ok")

\* C12: after handleDelete(id) has succeeded, no reply on its way to the client
\* holds the staff member, and every list fetch that completes from then on
\* delivers a list without it.
C12_DeletedAbsentFromFetches ==
  [][\A id \in 1..MaxStaff :
       DeleteSucceeded(id) =>
         /\ id \notin DOMAIN rosterQ.reply
         /\ (rosterQ.state = "replied" /\ rosterQ'.state = "idle")
              => (rosterQ'.data = rosterQ.reply /\ id \notin DOMAIN rosterQ'.data)
         /\ id \notin DOMAIN staffTable']_vars

\* C12 witness: a list fetched after a successful delete has been delivered
C12_Witness ==
  \E id \in 1..MaxStaff :
    /\ DeleteSucceeded(id)
    /\ rosterQ.state = "idle" /\ rosterQ.fetched
    /\ id \notin DOMAIN rosterQ.data
    /\ rosterQ.data # <<>>

C14_SubmitFailsFastWithoutTenant ==
  [][/\ (Len(submits') > Len(submits) /\ profileQ.data \in {"", Undefined}) =>
          /\ submits'[Len(submits')].pc = "failed"
          /\ submits'[Len(submits')].upload = 0
          /\ uploads' = uploads
          /\ menuTable' = menuTable
          /\ toast' = "No restaurant assigned to user"
          /\ isSubmitting' = FALSE
          /\ isUploading' = isUploading
          /\ menuFormOpen' = menuFormOpen
     /\ \A p \in DOMAIN submits' :
          submits'[p].pc \in {"uploading", "inserting", "closed"} =>
            submits'[p].row.restaurant_id \notin {"", Undefined}
     /\ \A i \in DOMAIN menuTable' :
          menuTable'[i].restaurant_id \notin {"", Undefined}]_vars

\* C14 witness: a submission with a file selected has failed fast
C14_Witness ==
  /\ profileQ.data = Undefined
  /\ \E p \in DOMAIN submits : submits[p].pc = "failed"
  /\ toast = "No restaurant assigned to user"
  /\ selectedFile # NoFile
  /\ uploads = <<>> /\ menuTable = <<>>
  /\ ~isSubmitting

\* C15: a submission made with a file selected and no uploaded URL starts the
\* upload itself and waits for it; its insert is sent in the step in which that
\* upload ends, not before; when the upload succeeded the insert, and the row
\* stored from it, carry exactly the URL the image host returned.
C15_InlineUploadBeforeInsert ==
  [][/\ (Len(submits') > Len(submits) /\ selectedFile # NoFile
          /\ uploadedImageUrl = <<>> /\ profileQ.data \notin {"", Undefined}) =>
          /\ submits'[Len(submits')].pc = "uploading"
          /\ Len(uploads') = Len(uploads) + 1
          /\ submits'[Len(submits')].upload = Len(uploads')
          /\ uploads'[Len(uploads')].caller = Len(submits')
          /\ uploads'[Len(uploads')].file = selectedFile
          /\ menuTable' = menuTable
     /\ \A p \in DOMAIN submits :
          LET u == submits[p].upload IN
          submits[p].pc = "uploading" =>
            /\ uploads[u].pc \in UploadsInFlight
            /\ submits'[p].pc \in {"uploading", "inserting"}
            /\ submits'[p].pc = "inserting" <=> uploads'[u].pc \notin UploadsInFlight
            /\ uploads'[u].pc = "uploaded" =>
                 /\ uploads[u].body.url # <<>>
                 /\ submits'[p].row.image_url = uploads[u].body.url
     /\ \A p \in DOMAIN submits :
          (submits[p].pc = "inserting" /\ submits'[p].pc = "closed") =>
            /\ Len(menuTable') = Len(menuTable) + 1
            /\ menuTable'[Len(menuTable')] = submits[p].row]_vars

\* C15 witness: a row was stored with the URL of the upload its submission made
C15_Witness ==
  \E p \in DOMAIN submits :
    /\ submits[p].pc = "closed"
    /\ submits[p].upload # 0
    /\ uploads[submits[p].upload].pc = "uploaded"
    /\ \E i \in DOMAIN menuTable : menuTable[i].image_url = HostUrl(submits[p].upload)

\* C16: handleSubmit is keyed by editingStaff as it is when the form is
\* submitted.  With editingStaff set, the write the backend runs changes no
\* record but the one with that id, creates none, keeps that record's
\* restaurant_id and stores the form's data in it (when the record still
\* exists); with editingStaff null it adds exactly one record, with the form's
\* data and the resolved restaurant, and changes no existing one.
C16_SubmitIsUpsertByEditingState ==
  [][/\ \A m \in rosterCalls' \ rosterCalls :
          (m.op = "submit" /\ m.pc = "resolving") => m.id = editingStaff
     /\ \A m \in rosterCalls :
          (m.op = "submit" /\ m.pc = "sent" /\ m \notin rosterCalls'
             /\ [m EXCEPT !.pc = "ok"] \in rosterCalls' \ rosterCalls) =>
            IF m.id # NoStaff
              THEN /\ DOMAIN staffTable' = DOMAIN staffTable
                   /\ \A i \in DOMAIN staffTable :
                        /\ staffTable'[i].restaurant_id = staffTable[i].restaurant_id
                        /\ i # m.id => staffTable'[i] = staffTable[i]
                        /\ i = m.id => staffTable'[i].first_name = m.staffData.first_name
              ELSE /\ Cardinality(DOMAIN staffTable' \ DOMAIN staffTable) = 1
                   /\ DOMAIN staffTable \subseteq DOMAIN staffTable'
                   /\ \A i \in DOMAIN staffTable : staffTable'[i] = staffTable[i]
                   /\ \A i \in DOMAIN staffTable' \ DOMAIN staffTable :
                        /\ staffTable'[i].restaurant_id = session[1].restaurant_id
                        /\ staffTable'[i].restaurant_id \notin {"", Undefined}
                        /\ staffTable'[i].first_name = m.staffData.first_name]_vars

\* C16 witness: one submission has added a record and another has renamed an
\* existing one
C16_Witness ==
  /\ \E i \in DOMAIN staffTable \ DOMAIN InitStaffTable :
       staffTable[i].restaurant_id = "r1"
  /\ 1 \in DOMAIN staffTable /\ staffTable[1].first_name = "Dev"
  /\ editingStaff = NoStaff /\ ~isAddDialogOpen
  /\ rosterCalls = {}

\* C17: an upload attempt ends as uploaded exactly when the image host's
\* response was OK and its body has status_code 200 and an image URL; it then
\* sets uploadedImageUrl and the form's image_url to that URL and hands it to a
\* waiting submission.  Every other attempt ends as failed: it hands the
\* submission nothing, leaves selectedFile, uploadedImageUrl and image_url as
\* they were, so that a file still selected is shown in the file view with its
\* Upload button again, and it is never started again by itself.
C17_UploadedIffAcceptedResponse ==
  [][/\ \A u \in DOMAIN uploads :
          (uploads[u].pc \in UploadsInFlight /\ uploads'[u].pc \notin UploadsInFlight) =>
            LET body == uploads[u].body
                p == uploads[u].caller
            IN /\ uploads'[u].pc \in {"uploaded", "failed"}
               /\ uploads'[u].pc = "uploaded" <=>
                    /\ uploads[u].pc = "parsing"
                    /\ ~body.rejected /\ body.ok
                    /\ body.status_code = 200 /\ body.url # <<>>
               /\ isUploading' = FALSE
               /\ selectedFile' = selectedFile
               /\ Len(uploads') = Len(uploads)
               /\ uploads'[u].pc = "uploaded" =>
                    /\ uploadedImageUrl' = body.url
                    /\ formImageUrl' = body.url
                    /\ p # 0 => submits'[p].row.image_url = body.url
               /\ uploads'[u].pc = "failed" =>
                    /\ uploadedImageUrl' = uploadedImageUrl
                    /\ formImageUrl' = formImageUrl
                    /\ p # 0 => submits'[p].row.image_url = submits[p].data_image_url
                    /\ selectedFile # NoFile => (FileViewShown /\ UploadButtonShown)'
     /\ \A u \in DOMAIN uploads :
          uploads[u].pc \notin UploadsInFlight => uploads'[u] = uploads[u]]_vars

\* C17 witness: an attempt failed on a response that was OK, the file stayed
\* selected, and the attempt the user then started was accepted
C17_Witness ==
  /\ Len(uploads) = 2
  /\ uploads[1].pc = "failed" /\ uploads[2].pc = "uploaded"
  /\ uploads[1].file = uploads[2].file
  /\ selectedFile = uploads[2].file
  /\ uploadedImageUrl = HostUrl(2) /\ formImageUrl = HostUrl(2)
  /\ ~isUploading

\* C18: every staff_leaves insert that is sent carries a staff id, a start
\* date, an end date and a restaurant id, all present and as the form and the
\* restaurant-id query hold them, and the reason as it is, empty or not; when
\* handleAddLeave answers "Missing information" one of the four is absent and
\* the step sends no request and changes neither the form fields nor the
\* dialog's open state nor the table.
C18_InsertNeedsAllRequiredFields ==
  [][/\ \A m \in insertCalls' \ insertCalls :
          m.res = "sent" =>
            /\ selectedStaffId[m.client] \notin {"", Undefined}
            /\ startDate[m.client] \notin {"", Undefined}
            /\ endDate[m.client] \notin {"", Undefined}
            /\ ridQ[m.client].data \notin {"", Undefined}
            /\ m.row.staff_id = selectedStaffId[m.client]
            /\ m.row.start_date = startDate[m.client]
            /\ m.row.end_date = endDate[m.client]
            /\ m.row.restaurant_id = ridQ[m.client].data
            /\ m.row.reason = reason[m.client]
     /\ (toast # "Missing information" /\ toast' = "Missing information") =>
          /\ \E v \in {selectedStaffId[1], startDate[1], endDate[1], ridQ[1].data} :
               v \in {"", Undefined}
          /\ insertCalls' = insertCalls
          /\ leaveForm' = leaveForm
          /\ leavesTable' = leavesTable
          /\ leavesQ' = leavesQ]_vars

\* C18 witness: after a "Missing information" answer the form was completed
\* without a reason, and its insert has been sent
C18_Witness ==
  /\ toast = "Missing information"
  /\ isAddLeaveOpen[1]
  /\ \E m \in insertCalls : m.res = "sent" /\ m.row.reason = "" /\ m.client = 1

\* C19 as stated: uploadedImageUrl and the form's image_url are non-empty only
\* while a file is selected; an upload that was in flight when the image was
\* removed sets neither.
C19_Original ==
  /\ uploadedImageUrl # <<>> => selectedFile # NoFile
  /\ formImageUrl # <<>> => selectedFile # NoFile

\* C20: at most one uploadImage call and at most one onSubmit call are in
\* flight at any time; isUploading and isSubmitting are true exactly while one
\* is, so that the Upload button, offered only while not isUploading, and the
\* submit button, disabled while isSubmitting or isUploading, never start a
\* second one.
C20_OneUploadOneSubmitInFlight ==
  /\ Cardinality(InFlightUploads) <= 1
  /\ Cardinality(InFlightSubmits) <= 1
  /\ isUploading <=> InFlightUploads # {}
  /\ isSubmitting <=> InFlightSubmits # {}
  /\ (isUploading \/ isSubmitting) => SubmitDisabled

\* C20 witness: a second upload attempt, started from the Upload button, runs
\* while a submission awaits its insert
C20_Witness ==
  /\ Len(uploads) = 2
  /\ 2 \in InFlightUploads /\ uploads[2].caller = 0
  /\ \E p \in InFlightSubmits : submits[p].pc = "inserting"
  /\ isUploading /\ isSubmitting
====
